---- MODULE Spec2Model ----
(***************************************************************************)
(* Model of integrations/cloudflare_worker/src/lib.rs: the server function *)
(* handler of the Cloudflare Worker integration.  One request is handled   *)
(* at a time; the handler is split at its two await points (reading the    *)
(* request body, running the server function).                             *)
(***************************************************************************)
EXTENDS Integers, Sequences, FiniteSets, TLC

VARIABLES
    req,          \* the worker::Request handed to the handler
    entry,        \* which entry point runs and its additional_context closure
    pc,           \* position of the handler's future
    runtimes,     \* live reactive runtimes
    scopes,       \* live scopes
    context,      \* types that have a context value in the request's scope
    resParts,     \* the ResponseParts behind the scope's ResponseOptions
    data,         \* Option: the argument bytes handed to server_fn.call
    locals,       \* Option: the handler's runtime and cx bindings
    nops,         \* number of ResponseOptions calls the server function made
    lastStatus,   \* the last call of the server function that touched status
    lastOp,       \* the last ResponseOptions call of the server function
    outcome,      \* Option: what server_fn.call returned
    response,     \* Option: the Response the handler returned
    trace         \* the handler's steps for the current request, in order

vars == <<req, entry, pc, runtimes, scopes, context, resParts, data, locals,
          nops, lastStatus, lastOp, outcome, response, trace>>

----------------------------------------------------------------------------
(* Bounds and the input values the model draws from.                       *)

\* the server function calls at most this many ResponseOptions methods
MaxOps == 2

None == <<>>
Some(v) == <<v>>

\* URL paths, one character per element
PathA == <<"/", "a">>
PathB == <<"/", "b">>
PathC == <<"/", "c">>
PathD == <<"/", "d">>
PathUnknown == <<"/", "x">>
PathDoubleSlash == <<"/", "/", "a">>
Paths == {PathA, PathB, PathC, PathD, PathUnknown, PathDoubleSlash}

Methods == {"GET", "POST"}
Queries == {None, Some("q=1")}
\* the result of req.bytes().await
Bodies == {<<"Err">>, <<"Ok", "b=2">>}
\* the results of req.headers().get("Accept") and get("Referer")
AcceptValues ==
    {<<"Err">>, <<"Ok", None>>, <<"Ok", Some("application/json")>>,
     <<"Ok", Some("application/x-www-form-urlencoded")>>,
     <<"Ok", Some("application/cbor")>>, <<"Ok", Some("text/html")>>}
RefererValues == {<<"Err">>, <<"Ok", None>>, <<"Ok", Some("/back")>>}

Requests ==
    [path : Paths, method : Methods, query : Queries, body : Bodies,
     accept : AcceptValues, referer : RefererValues]

\* handle_server_fns always passes the empty closure
Entries ==
    {[fn |-> "handle_server_fns", closure |-> "noop"]} \cup
    [fn : {"handle_server_fns_with_context"},
     closure : {"provide_request", "redirect"}]

HeaderNames == {"Location", "Content-Type", "X-A"}
NoHeaders == [k \in HeaderNames |-> <<>>]

StatusArgs == {404}
HeaderArgs == {<<"X-A", "1">>, <<"Content-Type", "text/plain">>}
RedirectArgs == {"/to"}
Payloads == {<<"Binary", "bin">>, <<"Url", "u=1">>, <<"Json", "{}">>}
\* a ServerFnError and whether serde_json can serialize it
Errors == {[msg |-> "boom", serializable |-> TRUE],
           [msg |-> "bad", serializable |-> FALSE]}

----------------------------------------------------------------------------
(* worker::Headers: a multimap; get joins the values of a name.            *)

HeadersSet(h, k, v) == [h EXCEPT ![k] = <<v>>]
HeadersAppend(h, k, v) == [h EXCEPT ![k] = Append(@, v)]

RECURSIVE JoinValues(_)
JoinValues(vs) ==
    IF Len(vs) = 1 THEN vs[1] ELSE vs[1] \o ", " \o JoinValues(Tail(vs))

HeadersGet(h, k) == IF h[k] = <<>> THEN None ELSE Some(JoinValues(h[k]))

----------------------------------------------------------------------------
(* ResponseParts and ResponseOptions.                                      *)

DefaultParts == [headers |-> NoHeaders, status |-> None]

PartsInsertHeader(parts, k, v) ==
    [parts EXCEPT !.headers = HeadersSet(@, k, v)]
PartsAppendHeader(parts, k, v) ==
    [parts EXCEPT !.headers = HeadersAppend(@, k, v)]

overwrite(parts, new) == new
set_status(parts, s) == [parts EXCEPT !.status = Some(s)]
insert_header(parts, k, v) ==
    [parts EXCEPT !.headers = HeadersSet(@, k, v)]
append_header(parts, k, v) ==
    [parts EXCEPT !.headers = HeadersAppend(@, k, v)]

use_context(ctx, type) == type \in ctx

redirect(ctx, parts, path) ==
    IF use_context(ctx, "ResponseOptions")
    THEN insert_header(set_status(parts, 302), "Location", path)
    ELSE parts

\* the ResponseParts a server function may hand to overwrite
OverwriteArgs ==
    {DefaultParts,
     [PartsAppendHeader(PartsInsertHeader(DefaultParts, "X-A", "8"),
                        "X-A", "9") EXCEPT !.status = Some(201)]}

----------------------------------------------------------------------------
(* The registry of server functions (leptos_server) and the lookup.        *)

Registry ==
    (<<"a">> :> "Url") @@ (<<"b">> :> "Cbor") @@
    (<<"c">> :> "GetJSON") @@ (<<"d">> :> "GetCBOR")

server_fn_by_path(name) ==
    IF name \in DOMAIN Registry THEN Some(Registry[name]) ELSE None

StripAllSlashes(path) ==
    SelectSeq(path, LAMBDA c : c # "/")
\* str::strip_prefix('/') followed by unwrap_or(url.path())
strip_prefix(path) ==
    IF path # <<>> /\ path[1] = "/" THEN Tail(path) ELSE path

LookedUp(r) == server_fn_by_path(strip_prefix(r.path))

----------------------------------------------------------------------------
(* Argument bytes.                                                         *)

\* url.query().unwrap_or("")
QueryBytes(r) == IF r.query = None THEN "" ELSE r.query[1]
\* req.clone_mut().bytes().await.unwrap_or_default()
BodyBytes(r) == IF r.body[1] = "Ok" THEN r.body[2] ELSE ""

ReadsBody(encoding) == encoding \in {"Url", "Cbor"}

ArgBytesByMethod(r, encoding) ==
    IF r.method = "POST" THEN BodyBytes(r) ELSE QueryBytes(r)
ArgBytes(r, encoding) ==
    IF ReadsBody(encoding) THEN BodyBytes(r) ELSE QueryBytes(r)

----------------------------------------------------------------------------
(* worker::Response.                                                       *)

EmptyResponse == [body |-> <<"empty">>, headers |-> NoHeaders, status |-> 200]
\* Response::from_body(ResponseBody::Body(bytes)) builds the response as is
from_body(body) ==
    <<"Ok", [body |-> body, headers |-> NoHeaders, status |-> 200]>>
with_status(r, s) == [r EXCEPT !.status = s]
with_headers(r, h) == [r EXCEPT !.headers = h]

----------------------------------------------------------------------------
(* The response for Ok(serialized).                                        *)

\* match req.headers().get("Accept") { Ok(o) => o, _ => None }
AcceptHeader(r) == IF r.accept[1] = "Ok" THEN r.accept[2] ELSE None

AcceptsDataNoCbor(accept_header) ==
    accept_header \in {Some("application/json"),
                       Some("application/x-www-form-urlencoded")}
AcceptsData(accept_header) ==
    \/ accept_header = Some("application/json")
    \/ accept_header = Some("application/x-www-form-urlencoded")
    \/ accept_header = Some("application/cbor")

\* match req.headers().get("Referer") { Ok(Some(value)) => value, _ => "/" }
RefererOrRoot(r) ==
    IF r.referer[1] = "Ok" /\ r.referer[2] # None
    THEN r.referer[2][1]
    ELSE "/"

InitialStatus(r) == IF AcceptsData(AcceptHeader(r)) THEN 200 ELSE 303
InitialHeaders(r) ==
    IF AcceptsData(AcceptHeader(r))
    THEN NoHeaders
    ELSE HeadersSet(NoHeaders, "Location", RefererOrRoot(r))

KeepStatus(res_status, parts) == res_status
StatusOverride(res_status, parts) ==
    IF parts.status # None THEN parts.status[1] ELSE res_status

\* res_parts.headers.entries().map(|(k, v)| headers.append(&k, &v)): the
\* iterator adaptor is built and dropped without being run, so the closure
\* is never called
CollectHeaders(headers, parts) == headers

PayloadResponse(serialized, headers, res_status) ==
    LET built == from_body(<<"bytes", serialized[2]>>) IN
    IF built[1] # "Ok"
    THEN with_status(EmptyResponse, 500)
    ELSE CASE serialized[1] = "Binary" ->
                with_status(with_headers(built[2], headers), res_status)
           [] serialized[1] = "Url" ->
                with_status(
                    with_headers(built[2],
                        HeadersSet(headers, "Content-Type",
                                   "application/x-www-form-urlendcoded")),
                    res_status)
           [] serialized[1] = "Json" ->
                with_status(
                    with_headers(built[2],
                        HeadersSet(headers, "Content-Type",
                                   "application/json")),
                    res_status)

OkResponse(r, parts, serialized) ==
    PayloadResponse(serialized,
                    CollectHeaders(InitialHeaders(r), parts),
                    StatusOverride(InitialStatus(r), parts))

----------------------------------------------------------------------------
(* The responses for Err(e) and for an unknown route.                      *)

\* serde_json::to_string(&e).unwrap_or_else(|_| e.to_string())
ErrorText(e) ==
    IF e.serializable THEN <<"json", e.msg>> ELSE <<"display", e.msg>>

ErrResponseWithOptions(e) ==
    LET built == from_body(ErrorText(e)) IN
    with_status(with_headers(built[2], InitialHeaders(req)),
                StatusOverride(500, resParts))
ErrResponse(e) ==
    LET built == from_body(ErrorText(e)) IN
    IF built[1] = "Ok"
    THEN with_status(built[2], 500)
    ELSE with_status(EmptyResponse, 500)

NotFoundResponse(path) ==
    LET built == from_body(<<"not_found", path>>) IN
    IF built[1] = "Ok"
    THEN with_status(built[2], 400)
    ELSE with_status(EmptyResponse, 400)

----------------------------------------------------------------------------
(* Runtimes and scopes.                                                    *)

NewId(S) == CHOOSE i \in 1..(Cardinality(S) + 1) : i \notin S

create_runtime(rts) == NewId(rts)
raw_scope_and_disposer(runtime, scs) ==
    <<runtime, NewId({s[2] : s \in {t \in scs : t[1] = runtime}})>>

DisposerDispose(scs, cx) == scs \ {cx}
RuntimeKeep(rts, scs, runtime) == [runtimes |-> rts, scopes |-> scs]
RuntimeDispose(rts, scs, runtime) ==
    [runtimes |-> rts \ {runtime},
     scopes |-> {s \in scs : s[1] # runtime}]

provide_context(ctx, type) == ctx \cup {type}

\* the closures passed as additional_context
AdditionalContext(closure, ctx, parts) ==
    CASE closure = "noop" -> [context |-> ctx, parts |-> parts]
      [] closure = "provide_request" ->
            [context |-> provide_context(ctx, "Request"), parts |-> parts]
      [] closure = "redirect" ->
            [context |-> ctx, parts |-> redirect(ctx, parts, "/early")]

----------------------------------------------------------------------------
(* The handler.                                                            *)

Fresh ==
    /\ pc = "start"
    /\ runtimes = {} /\ scopes = {} /\ context = {}
    /\ resParts = DefaultParts
    /\ data = None /\ locals = None
    /\ nops = 0
    /\ lastStatus = <<"none">> /\ lastOp = <<"none">>
    /\ outcome = None /\ response = None
    /\ trace = <<>>

Init ==
    /\ req \in Requests
    /\ entry \in Entries
    /\ Fresh

\* no server function at the route: the else branch
NotFound ==
    /\ pc = "start"
    /\ LookedUp(req) = None
    /\ response' = Some(NotFoundResponse(req.path))
    /\ pc' = "done"
    /\ trace' = Append(trace, "return")
    /\ UNCHANGED <<req, entry, runtimes, scopes, context, resParts, data,
                   locals, nops, lastStatus, lastOp, outcome>>

\* a server function was found: from create_runtime up to the first await
Dispatch ==
    /\ pc = "start"
    /\ LookedUp(req) # None
    /\ LET server_fn == LookedUp(req)[1]
           runtime == create_runtime(runtimes)
           cx == raw_scope_and_disposer(runtime, scopes)
           added == AdditionalContext(entry.closure, context, resParts)
       IN  /\ runtimes' = runtimes \cup {runtime}
           /\ scopes' = scopes \cup {cx}
           /\ locals' = Some([runtime |-> runtime, cx |-> cx])
           /\ context' = provide_context(added.context, "ResponseOptions")
           /\ resParts' = DefaultParts
           /\ IF ReadsBody(server_fn)
              THEN /\ pc' = "await_bytes"
                   /\ data' = data
                   /\ trace' = trace \o <<"create_runtime", "create_scope",
                                          "additional_context",
                                          "provide_context">>
              ELSE /\ pc' = "call"
                   /\ data' = Some(ArgBytes(req, server_fn))
                   /\ trace' = trace \o <<"create_runtime", "create_scope",
                                          "additional_context",
                                          "provide_context", "call">>
    /\ UNCHANGED <<req, entry, nops, lastStatus, lastOp, outcome, response>>

\* the request body has been read; server_fn.call starts
BytesReady ==
    /\ pc = "await_bytes"
    /\ data' = Some(ArgBytes(req, LookedUp(req)[1]))
    /\ pc' = "call"
    /\ trace' = Append(trace, "call")
    /\ UNCHANGED <<req, entry, runtimes, scopes, context, resParts, locals,
                   nops, lastStatus, lastOp, outcome, response>>

----------------------------------------------------------------------------
(* What the server function does with the scope while it runs.             *)

FnStep(parts, status, op) ==
    /\ pc = "call"
    /\ nops < MaxOps
    /\ nops' = nops + 1
    /\ resParts' = parts
    /\ lastStatus' = status
    /\ lastOp' = op
    /\ UNCHANGED <<req, entry, pc, runtimes, scopes, context, data, locals,
                   outcome, response, trace>>

FnSetStatus ==
    \E s \in StatusArgs :
        FnStep(set_status(resParts, s), <<"set_status", s>>,
               <<"set_status", s>>)

FnInsertHeader ==
    \E kv \in HeaderArgs :
        FnStep(insert_header(resParts, kv[1], kv[2]), lastStatus,
               <<"insert_header", kv[1], kv[2]>>)

FnAppendHeader ==
    \E kv \in HeaderArgs :
        FnStep(append_header(resParts, kv[1], kv[2]), lastStatus,
               <<"append_header", kv[1], kv[2]>>)

FnOverwrite ==
    \E parts \in OverwriteArgs :
        FnStep(overwrite(resParts, parts), <<"overwrite">>, <<"overwrite">>)

FnRedirect ==
    \E path \in RedirectArgs :
        FnStep(redirect(context, resParts, path),
               IF use_context(context, "ResponseOptions")
               THEN <<"set_status", 302>> ELSE lastStatus,
               <<"redirect", path>>)

----------------------------------------------------------------------------
(* server_fn.call returns: build the response, clean up, return.           *)

Finish(result, res) ==
    /\ pc = "call"
    /\ outcome' = Some(result)
    /\ LET cx == locals[1].cx
           runtime == locals[1].runtime
           disposed == RuntimeDispose(runtimes, DisposerDispose(scopes, cx),
                                      runtime)
       IN  /\ scopes' = disposed.scopes
           /\ runtimes' = disposed.runtimes
           /\ trace' = trace \o
                <<"build_response">> \o
                (IF cx \in DisposerDispose(scopes, cx)
                 THEN <<>> ELSE <<"dispose_scope">>) \o
                (IF runtime \in disposed.runtimes
                 THEN <<>> ELSE <<"dispose_runtime">>) \o
                <<"return">>
    /\ context' = {}
    /\ locals' = None
    /\ response' = Some(res)
    /\ pc' = "done"
    /\ UNCHANGED <<req, entry, resParts, data, nops, lastStatus, lastOp>>

CallReturnsOk ==
    \E serialized \in Payloads :
        Finish(<<"Ok", serialized>>, OkResponse(req, resParts, serialized))

CallReturnsErr ==
    \E e \in Errors :
        Finish(<<"Err", e>>, ErrResponse(e))

\* the returned future is dropped with its bindings; runtimes live on in the
\* thread's runtime table
Complete ==
    /\ pc = "done"
    /\ pc' = "idle"
    /\ context' = {}
    /\ resParts' = DefaultParts
    /\ data' = None /\ locals' = None
    /\ nops' = 0
    /\ lastStatus' = <<"none">> /\ lastOp' = <<"none">>
    /\ outcome' = None /\ response' = None
    /\ trace' = <<>>
    /\ UNCHANGED <<req, entry, runtimes, scopes>>

\* the host hands the next request to the handler
NextRequest ==
    /\ pc = "idle"
    /\ req' \in Requests
    /\ entry' \in Entries
    /\ pc' = "start"
    /\ UNCHANGED <<runtimes, scopes, context, resParts, data, locals, nops,
                   lastStatus, lastOp, outcome, response, trace>>

Next ==
    \/ NotFound
    \/ Dispatch
    \/ BytesReady
    \/ FnSetStatus
    \/ FnInsertHeader
    \/ FnAppendHeader
    \/ FnOverwrite
    \/ FnRedirect
    \/ CallReturnsOk
    \/ CallReturnsErr
    \/ Complete
    \/ NextRequest

Spec == Init /\ [][Next]_vars

----------------------------------------------------------------------------
(* Properties.                                                             *)

\* the URL path with one leading '/' removed
NameOf(path) ==
    IF Len(path) > 0 /\ path[1] = "/" THEN SubSeq(path, 2, Len(path)) ELSE path
Registered(path) == NameOf(path) \in DOMAIN Registry

ReturnedOk == pc = "done" /\ outcome # None /\ outcome[1][1] = "Ok"
ReturnedErr == pc = "done" /\ outcome # None /\ outcome[1][1] = "Err"

DataAccepts ==
    {<<"Ok", Some("application/json")>>,
     <<"Ok", Some("application/x-www-form-urlencoded")>>,
     <<"Ok", Some("application/cbor")>>}

IsPrefix(s, t) == Len(s) <= Len(t) /\ s = SubSeq(t, 1, Len(s))

\* C1: when the server function returns Ok, every header it left in the
\* ResponseOptions is in the returned Response with the same value.
C1_OptionHeadersInResponse ==
    ReturnedOk =>
        \A k \in HeaderNames :
            resParts.headers[k] # <<>> =>
                HeadersGet(response[1].headers, k)
                    = HeadersGet(resParts.headers, k)

\* C2: when the server function returns Ok and the payload body was built,
\* a status given to set_status is the status of the Response whatever the
\* Accept header is, and with no status set the status is 200 for the three
\* data media types in Accept and 303 otherwise.
C2_StatusFromOptions ==
    (ReturnedOk /\ response[1].body[1] = "bytes") =>
        /\ lastStatus[1] = "set_status" =>
                response[1].status = lastStatus[2]
        /\ lastStatus[1] = "none" =>
                response[1].status =
                    (IF req.accept \in DataAccepts THEN 200 ELSE 303)

C2_Witness ==
    /\ ReturnedOk
    /\ lastStatus = <<"set_status", 404>>
    /\ req.accept = <<"Ok", Some("application/json")>>
    /\ response[1].status = 404

\* C3: while the server function runs, its scope holds context values of
\* both types ResponseOptions and Request.
C3_BothContextsProvided ==
    pc = "call" =>
        /\ use_context(context, "ResponseOptions")
        /\ use_context(context, "Request")

\* C4: when the server function's last call is redirect(cx, path) and it
\* returns Ok, the Response has status 302 and Location path for every
\* Accept and Referer; without ResponseOptions in the scope redirect changes
\* nothing.
C4_RedirectInResponse ==
    /\ (ReturnedOk /\ lastOp[1] = "redirect") =>
            /\ response[1].status = 302
            /\ HeadersGet(response[1].headers, "Location") = Some(lastOp[2])
    /\ \A path \in RedirectArgs : redirect({}, resParts, path) = resParts

\* C5: the server function is found under the path less one leading '/';
\* an unknown path is answered with status 400 and a body naming the path,
\* with no server function called, no additional_context run and no runtime
\* or scope created.
C5_UnknownRoute ==
    /\ pc \in {"await_bytes", "call"} => Registered(req.path)
    /\ (pc = "done" /\ ~Registered(req.path)) =>
            /\ response[1].status = 400
            /\ response[1].body = <<"not_found", req.path>>
            /\ outcome = None
            /\ data = None
            /\ trace = <<"return">>
            /\ runtimes = {} /\ scopes = {} /\ context = {}

C5_Witness ==
    /\ pc = "done"
    /\ req.path = PathDoubleSlash
    /\ response[1].status = 400
    /\ entry.closure = "provide_request"

\* C6: when the server function returns Err(e), the Response has status 500,
\* no headers and the JSON text of e, or e's display text when it does not
\* serialize, whatever the ResponseOptions and the Accept and Referer
\* headers hold.
C6_ErrorResponse ==
    ReturnedErr =>
        LET e == outcome[1][2] IN
        /\ response[1].status = 500
        /\ response[1].headers = NoHeaders
        /\ response[1].body =
              (IF e.serializable THEN <<"json", e.msg>>
                                 ELSE <<"display", e.msg>>)

C6_Witness ==
    /\ ReturnedErr
    /\ resParts.status = Some(404)
    /\ resParts.headers["X-A"] # <<>>
    /\ req.accept = <<"Ok", Some("text/html")>>
    /\ req.referer = <<"Ok", Some("/back")>>
    /\ response[1].status = 500

\* C7: the bytes handed to the server function are the query string (empty
\* without a query) for GetJSON and GetCBOR and the request body (empty when
\* it cannot be read) for Url and Cbor, whatever the method.
C7_ArgsByEncoding ==
    data # None =>
        LET encoding == Registry[NameOf(req.path)] IN
        /\ encoding \in {"GetJSON", "GetCBOR"} =>
              data[1] = (IF req.query = None THEN "" ELSE req.query[1])
        /\ encoding \in {"Url", "Cbor"} =>
              data[1] = (IF req.body[1] = "Ok" THEN req.body[2] ELSE "")

C7_Witness ==
    /\ pc = "call"
    /\ req.method = "GET"
    /\ req.path = PathA
    /\ req.query = Some("q=1")
    /\ data = Some("b=2")

\* C8: for a call that returned Ok with no status in the ResponseOptions, an
\* Accept of exactly one of the three data media types gives status 200 and
\* no Location header, and anything else gives status 303 with Location set
\* to the Referer, or "/" without a readable Referer.
C8_DefaultStatusAndLocation ==
    (ReturnedOk /\ resParts.status = None) =>
        IF req.accept \in DataAccepts
        THEN /\ response[1].status = 200
             /\ HeadersGet(response[1].headers, "Location") = None
        ELSE /\ response[1].status = 303
             /\ HeadersGet(response[1].headers, "Location") =
                    (IF req.referer = <<"Ok", Some("/back")>>
                     THEN Some("/back") ELSE Some("/"))

C8_Witness ==
    /\ ReturnedOk
    /\ resParts.status = None
    /\ req.accept = <<"Ok", Some("application/cbor")>>
    /\ response[1].status = 200

HandlerSteps ==
    <<"create_runtime", "create_scope", "additional_context",
      "provide_context", "call", "build_response", "dispose_scope",
      "dispose_runtime", "return">>

C10_ContentTypeNamesPayload ==
    ReturnedOk =>
        LET kind == outcome[1][2][1]
            ct == HeadersGet(response[1].headers, "Content-Type")
        IN  /\ kind = "Json" => ct = Some("application/json")
            /\ kind = "Url" => ct = Some("application/x-www-form-urlencoded")
            /\ kind = "Binary" =>
                  ct \in {None, HeadersGet(resParts.headers, "Content-Type")}

====
